---- MODULE Spec2Model ----
(***************************************************************************)
(* Model of the API key core of the ImageMagick web application:           *)
(* src/src/auth.py (APIKeyManager and its JSON store).                     *)
(*                                                                         *)
(* Spec       one APIKeyManager used by one caller at a time: every        *)
(*            handler is one action (generate, validate, revoke, list) and *)
(*            the clock advances between calls.                            *)
(* SpecStore  Spec plus the life of the process around the storage file:   *)
(*            a crash while save_api_keys writes, and a new                *)
(*            APIKeyManager(...) that loads the file.                      *)
(* SpecConc   the handlers run by concurrent request threads (Flask runs   *)
(*            threaded), one step per access to the shared dictionary or   *)
(*            the file.                                                    *)
(* SpecHttp   the endpoints wrapped by require_api_key, with the           *)
(*            DISABLE_API_AUTH setting of the configuration.               *)
(* SpecShared the server and the manage_keys command on one storage file.  *)
(* SpecSig    generate_request_signature and verify_request_signature.     *)
(***************************************************************************)
EXTENDS Integers, Sequences, FiniteSets, TLC

\* ------------------------------------------------------------------ bounds

\* the clock runs over 0..MaxTime (unit: one day)
MaxTime == 1
\* cap of usage_count
MaxUsage == 1
\* cap of the number of storage faults (IOError, crash in a save) in a behaviour
MaxFaults == 1
\* a request thread handles at most MaxCalls requests
MaxCalls == 2

\* the raw secrets secrets.token_urlsafe(32) can draw; EmptyKey stands for an
\* empty or missing secret
RawKeys == {1, 2, 3}
EmptyKey == 0
\* the salts secrets.token_bytes(32) can draw
Salts == {1}
Names == {"ci-bot"}

\* ----------------------------------------------------------- pure helpers

\* Python's None, for optional values that are records in the model
None == [kind |-> "None", t |-> 0]

\* datetime.now() at clock value t
DateTime(t) == [kind |-> "datetime", t |-> t]

\* json.dump(..., default=str): a datetime is written as its str(), None as null
Str(d) == IF d.kind = "datetime" THEN [kind |-> "str", t |-> d.t] ELSE d

\* datetime.fromisoformat(s)
FromIsoFormat(s) == [kind |-> "datetime", t |-> s.t]

\* datetime.now() + timedelta(days = d)
PlusDays(d, days) == [kind |-> "datetime", t |-> d.t + days]

\* hashlib.sha256(raw_key.encode()).hexdigest()[:16]: a digest cut to 64 bits,
\* so distinct secrets can share a key id (here 1 and 3)
KeyIdOf(raw) ==
    CASE raw = 1 -> "k1"
      [] raw = 2 -> "k2"
      [] raw = 3 -> "k1"
      [] OTHER -> "k0"

KeyIds == {KeyIdOf(r) : r \in RawKeys}

\* hashlib.pbkdf2_hmac('sha256', raw, salt, 100000): collision free, so it is
\* modelled by the pair it was derived from
Pbkdf2(raw, salt) == [raw |-> raw, salt |-> salt]

\* bytes.hex() and bytes.fromhex()
Hex(b) == [hex |-> b]
FromHex(h) == h.hex

\* hmac.compare_digest(a, b)
CompareDigest(a, b) == a = b

\* the default of `permissions or ['process', 'health']`
DefaultPermissions == <<"process", "health">>

\* Python's `x in list`
InList(x, l) == \E i \in 1..Len(l) : l[i] = x

\* ---------------------------------------------------------------- inputs

\* an omitted (None) permissions argument, and a supplied list
NoList == [kind |-> "None", v |-> <<>>]
List(l) == [kind |-> "list", v |-> l]
PermissionArgs == {NoList, List(<<>>), List(<<"process">>)}

\* an omitted (None) expires_days argument, and a supplied integer
NoInt == [kind |-> "None", v |-> 0]
Int1(d) == [kind |-> "int", v |-> d]
ExpiresArgs == {NoInt, Int1(-1), Int1(0), Int1(1)}

\* required_permission: "None" when the caller gives none
RequiredPermissions == {"None", "process", "admin"}

\* ------------------------------------------------------------------ state

VARIABLES
    api_keys,   \* self.api_keys: key id -> record, in memory
    file,       \* the storage file: [kind, data]
    now,        \* the clock read by datetime.now()
    running,    \* TRUE while a process with its APIKeyManager is alive
    last,       \* the call that has just returned: its arguments and its result
    issued,     \* history: the raw secrets returned by generate_api_key so far
    fresh,      \* history: the previous call, if it was a generate (else NoCall)
    revoked,    \* history: the raw secrets whose record a revoke_api_key has revoked
    faults,     \* history: the number of storage faults so far
    stored,     \* history: the key ids that a completed save has written
    threads,    \* the request threads: where each one is in its handler
    text,       \* the bytes of the storage file as overlapping writers leave them
    succ,       \* history: key id -> validate calls of threads that returned an identity
    raised      \* history: TRUE once a handler run by a thread has raised

vars == <<api_keys, file, now, running, last, issued, fresh, revoked, faults, stored,
          threads, text, succ, raised>>

\* the state of the request threads
cvars == <<threads, text, succ, raised>>

\* the storage file does not exist
AbsentFile == [kind |-> "absent", data |-> <<>>]
\* the storage file holds a complete JSON document
JsonFile(data) == [kind |-> "json", data |-> data]
\* the storage file holds an empty or cut-off document
MalformedFile == [kind |-> "malformed", data |-> <<>>]

\* what validate_api_key returns on failure, and on success
NoIdentity == [kind |-> "None", key_id |-> "", name |-> "", permissions |-> <<>>]
Identity(key_id, key_data) ==
    [kind |-> "identity", key_id |-> key_id, name |-> key_data.name,
     permissions |-> key_data.permissions]

\* a request header: absent, or a text made of `bearer` times the prefix
\* 'Bearer ' followed by a secret (EmptyKey: by nothing)
NoHeader == [kind |-> "absent", bearer |-> 0, key |-> EmptyKey]
Header(bearer, key) == [kind |-> "text", bearer |-> bearer, key |-> key]

\* a text that is no secret: what is left of 'Bearer Bearer <secret>' after one
\* prefix is stripped
JunkKey == 9

\* the truth value Python gives a header value: None and '' are false
Truthy(h) == h.kind = "text" /\ (h.bearer > 0 \/ h.key # EmptyKey)

\* request.headers.get('X-API-Key') or request.headers.get('Authorization')
HeaderCredential(x_api_key, authorization) ==
    IF Truthy(x_api_key) THEN x_api_key ELSE authorization

\* `if api_key and api_key.startswith('Bearer '): api_key = api_key[7:]`, then
\* the text as validate_api_key sees it
StripBearer(h) ==
    IF ~Truthy(h) THEN EmptyKey
    ELSE IF h.bearer <= 1 THEN h.key
    ELSE JunkKey

\* os.environ.get(name, default): the value of a variable that may be unset
EnvironGet(env, default) == IF env = "unset" THEN default ELSE env

\* str.lower() on the values a variable is given here
Lower(v) == IF v = "True" THEN "true" ELSE v

\* config.py:42: DISABLE_API_AUTH of the configuration the server runs with
DISABLE_API_AUTH(env) == Lower(EnvironGet(env, "false")) = "true"

\* config.py:59: LOG_API_REQUESTS, left at its default
LOG_API_REQUESTS == Lower(EnvironGet("unset", "true")) = "true"

\* a request to an endpoint wrapped by require_api_key(permission), served with
\* the environment variable DISABLE_API_AUTH set to `env`; NoRequest: a direct
\* call
NoRequest ==
    [kind |-> "none", x_api_key |-> NoHeader, authorization |-> NoHeader,
     query_key |-> EmptyKey, permission |-> "None", env |-> "unset",
     disabled |-> FALSE]
Request(x_api_key, authorization, query_key, permission, env) ==
    [kind |-> "request", x_api_key |-> x_api_key, authorization |-> authorization,
     query_key |-> query_key, permission |-> permission, env |-> env,
     disabled |-> DISABLE_API_AUTH(env)]

\* what the wrapped endpoint answers
NoResponse ==
    [status |-> 0, error |-> "", message |-> "", handler |-> FALSE,
     api_key_data |-> NoIdentity]
\* mutant of Unauthorized: the refusal is a 403
Unauthorized_Forbidden ==
    [status |-> 403, error |-> "Forbidden", message |-> "", handler |-> FALSE,
     api_key_data |-> NoIdentity]
\* lines 207-210
Unauthorized ==
    [status |-> 401, error |-> "Invalid or missing API key",
     message |-> "Please provide a valid API key in the X-API-Key header",
     handler |-> FALSE, api_key_data |-> NoIdentity]
\* the status of the answer of the wrapped handler, 200 standing for the
\* answer it gives on its own. process_image logs request.api_key_data['name']
\* (app_new.py:113-114); when the wrapper has not set the attribute the
\* AttributeError is caught at line 150 and the answer is a 500. The handlers
\* behind 'admin' do not read the attribute.
HandlerStatus(permission, key_data) ==
    IF permission = "process" /\ LOG_API_REQUESTS /\ key_data.kind = "None"
    THEN 500 ELSE 200

\* lines 213-215: request.api_key_data = key_data, then the handler runs;
\* line 193: the handler runs and nothing was attached (key_data = NoIdentity)
Handled(permission, key_data) ==
    [status |-> HandlerStatus(permission, key_data),
     error |-> IF HandlerStatus(permission, key_data) = 500
               THEN "Server error" ELSE "",
     message |-> "", handler |-> TRUE, api_key_data |-> key_data]

\* mutant of Respond: the handler runs whatever validate_api_key returned
Respond_Open(request, key_data) ==
    IF request.kind = "none" THEN NoResponse
    ELSE Handled(request.permission, key_data)

\* lines 206-215: `if not key_data` answers 401, else the handler runs
Respond(request, key_data) ==
    IF request.kind = "none" THEN NoResponse
    ELSE IF key_data.kind = "None" THEN Unauthorized
    ELSE Handled(request.permission, key_data)

\* the arguments and the result of a call of the signature functions
NoSig ==
    [payload |-> [kind |-> "None", s |-> <<>>],
     signature |-> [kind |-> "None", mac |-> [key |-> <<>>, msg |-> <<>>]],
     secret_key |-> [kind |-> "None", s |-> <<>>],
     timestamp |-> [kind |-> "None", s |-> <<>>],
     tolerance |-> 0, time |-> 0, current_time |-> 0, verified |-> "none"]

\* no call has returned since the caller took the last result
NoCall ==
    [op |-> "none", api_key |-> EmptyKey, perm |-> "None", permissions |-> NoList,
     expires_days |-> NoInt, key_id |-> "", name |-> "", result |-> NoIdentity,
     out_permissions |-> <<>>, out_expires_at |-> None,
     ok |-> TRUE, why |-> "", save |-> "none", writes |-> 0, listing |-> <<>>,
     request |-> NoRequest, response |-> NoResponse, sig |-> NoSig]

\* the request threads of the server
Threads == {1, 2}

\* a thread between two requests
IdleThread ==
    [pc |-> "idle", op |-> "none", api_key |-> EmptyKey, key_id |-> "",
     usage_count |-> 0, size |-> 0, buf |-> <<>>, ret |-> "none",
     result |-> NoIdentity, calls |-> 0, mine |-> EmptyKey, late |-> FALSE]

\* a file without a byte in it
EmptyText == [chunks |-> <<>>, junk |-> 0]

\* ---------------------------------------------------------------- storage

\* json.dump(self.api_keys, f, indent=2, default=str) of one record
DumpRecord(r) ==
    [r EXCEPT !.created_at = Str(@), !.expires_at = Str(@), !.last_used = Str(@)]

Dump(keys) == [k \in DOMAIN keys |-> DumpRecord(keys[k])]

\* load_api_keys: the file's mapping, or {} when it is absent or cannot be read
LoadApiKeys(f) == IF f.kind = "json" THEN f.data ELSE <<>>

\* the outcomes of save_api_keys: the write completes; open() raises IOError; a
\* write raises IOError after open() truncated the file (both errors are
\* caught); the process dies after open() truncated the file
StorageOutcomes == {"ok", "open_fails", "write_fails", "crash"}

\* save_api_keys: the file after a save of `keys` that ends as `outcome`
SaveApiKeys(f, keys, outcome) ==
    CASE outcome = "ok" -> JsonFile(Dump(keys))
      [] outcome = "open_fails" -> f
      [] OTHER -> MalformedFile

\* ------------------------------------------------------------- operations

\* expires_at of generate_api_key: `if expires_days:` then now + timedelta
ExpiresAt(expires_days, t) ==
    IF expires_days.kind = "int" /\ expires_days.v # 0
    THEN PlusDays(DateTime(t), expires_days.v)
    ELSE None

\* `permissions or ['process', 'health']`
PermissionsOrDefault(permissions) ==
    IF permissions.kind = "list" /\ Len(permissions.v) > 0
    THEN permissions.v
    ELSE DefaultPermissions

\* mutant of NewRecord: the record keeps the raw secret
NewRecord_WithSecret(name, raw_key, salt, permissions, expires_days, t) ==
    [name |-> name,
     key_hash |-> Hex(Pbkdf2(raw_key, salt)),
     salt |-> Hex(salt),
     permissions |-> PermissionsOrDefault(permissions),
     created_at |-> DateTime(t),
     expires_at |-> ExpiresAt(expires_days, t),
     last_used |-> None,
     usage_count |-> 0,
     active |-> TRUE,
     api_key |-> raw_key]

\* the record generate_api_key stores
NewRecord(name, raw_key, salt, permissions, expires_days, t) ==
    [name |-> name,
     key_hash |-> Hex(Pbkdf2(raw_key, salt)),
     salt |-> Hex(salt),
     permissions |-> PermissionsOrDefault(permissions),
     created_at |-> DateTime(t),
     expires_at |-> ExpiresAt(expires_days, t),
     last_used |-> None,
     usage_count |-> 0,
     active |-> TRUE]

\* self.api_keys[key_id] = record
Put(keys, key_id, rec) ==
    [k \in DOMAIN keys \cup {key_id} |-> IF k = key_id THEN rec ELSE keys[k]]

\* mutant of IsActive: the active flag is not consulted
IsActive_Ignored(key_data) == TRUE

\* key_data.get('active', True)
IsActive(key_data) == key_data.active

\* mutant of Expired: a record expires only after the day following expires_at
Expired_Late(key_data, t) ==
    key_data.expires_at.kind # "None" /\ t > key_data.expires_at.t + 1

\* the expiry test of validate_api_key
Expired(key_data, t) ==
    IF key_data.expires_at.kind = "None" THEN FALSE
    ELSE LET expires_at == IF key_data.expires_at.kind = "str"
                           THEN FromIsoFormat(key_data.expires_at)
                           ELSE key_data.expires_at
         IN  t > expires_at.t

\* mutant of HashMatches: the key id found is taken as proof of the secret
HashMatches_Skipped(key_data, api_key) == TRUE

\* the hash test of validate_api_key
HashMatches(key_data, api_key) ==
    CompareDigest(key_data.key_hash, Hex(Pbkdf2(api_key, FromHex(key_data.salt))))

\* the checks of validate_api_key, in the order of the code: "ok" or the reason
\* that is logged before None is returned
ValidateChecks(keys, api_key, required_permission, t) ==
    IF api_key = EmptyKey THEN "missing"
    ELSE IF KeyIdOf(api_key) \notin DOMAIN keys THEN "unknown"
    ELSE LET key_data == keys[KeyIdOf(api_key)]
         IN  IF ~IsActive(key_data) THEN "inactive"
             ELSE IF Expired(key_data, t) THEN "expired"
             ELSE IF ~HashMatches(key_data, api_key) THEN "hash"
             ELSE IF required_permission # "None"
                     /\ ~InList(required_permission, key_data.permissions)
                  THEN "permission"
             ELSE "ok"

\* mutant of Used: the counter advances by two
Used_Twice(key_data, t) ==
    [key_data EXCEPT !.last_used = DateTime(t), !.usage_count = @ + 2]

\* the usage update of validate_api_key
Used(key_data, t) ==
    [key_data EXCEPT !.last_used = DateTime(t), !.usage_count = @ + 1]

\* mutant of Revoked: the flag is switched
Revoked_Toggle(key_data) == [key_data EXCEPT !.active = ~@]

\* the update of revoke_api_key
Revoked(key_data) == [key_data EXCEPT !.active = FALSE]

\* history only: the raw secret a record was generated for
SecretOf(key_data) == FromHex(key_data.key_hash).raw

\* -------------------------------------------------- one caller at a time

Init ==
    /\ api_keys = LoadApiKeys(AbsentFile)
    /\ file = AbsentFile
    /\ now = 0
    /\ running = TRUE
    /\ last = NoCall
    /\ issued = {}
    /\ fresh = NoCall
    /\ revoked = {}
    /\ faults = 0
    /\ stored = {}
    /\ threads = [t \in Threads |-> IdleThread]
    /\ text = EmptyText
    /\ succ = [k \in KeyIds |-> 0]
    /\ raised = FALSE

\* a caller can call when the manager is up and the previous result was taken
Callable == running /\ last.op = "none"

\* mutant of SaveAttempts: a save that failed is tried a second time
SaveAttempts_Retry(outcome) == IF outcome = "ok" THEN 1 ELSE 2

\* the number of times save_api_keys opens the file for writing: one `with
\* open` in one try, and the except branch only logs
SaveAttempts(outcome) == 1

\* how a handler that saves ends: it returns `call` with `keys` in memory, or,
\* when the process dies in the save, nothing returns and the memory is gone
Saved(keys, call, outcome) ==
    /\ file' = SaveApiKeys(file, keys, outcome)
    /\ faults' = IF outcome = "ok" THEN faults ELSE faults + 1
    /\ stored' = IF outcome = "ok" THEN stored \cup DOMAIN keys ELSE stored
    /\ IF outcome = "crash"
       THEN api_keys' = <<>> /\ running' = FALSE /\ last' = NoCall
       ELSE /\ api_keys' = keys /\ running' = TRUE
            /\ last' = [call EXCEPT !.save = outcome, !.writes = SaveAttempts(outcome)]

\* generate_api_key(name, permissions, expires_days), its save ending as `outcome`.
\* secrets.token_urlsafe(32) draws raw_key, secrets.token_bytes(32) draws salt;
\* a drawn secret is never drawn again
GenerateApiKey(name, permissions, expires_days, raw_key, salt, outcome) ==
    LET key_id == KeyIdOf(raw_key)
        rec == NewRecord(name, raw_key, salt, permissions, expires_days, now)
    IN  /\ Callable
        /\ raw_key \notin issued
        /\ Saved(Put(api_keys, key_id, rec),
                 [NoCall EXCEPT !.op = "generate", !.api_key = raw_key,
                     !.permissions = permissions, !.expires_days = expires_days,
                     !.key_id = key_id, !.name = name,
                     !.out_permissions = PermissionsOrDefault(permissions),
                     !.out_expires_at = ExpiresAt(expires_days, now)],
                 outcome)
        /\ issued' = IF outcome = "crash" THEN issued ELSE issued \cup {raw_key}
        /\ fresh' = last'
        /\ UNCHANGED <<now, revoked>>
        /\ UNCHANGED cvars

\* validate_api_key(api_key, required_permission), its save ending as `outcome`,
\* called directly (request = NoRequest) or by the wrapper of require_api_key,
\* which then answers the request
ValidateApiKeyFor(api_key, required_permission, outcome, request) ==
    LET why == ValidateChecks(api_keys, api_key, required_permission, now)
        key_id == KeyIdOf(api_key)
        call == [NoCall EXCEPT !.op = "validate", !.api_key = api_key,
                    !.perm = required_permission, !.why = why,
                    !.request = request, !.response = Respond(request, NoIdentity)]
    IN  /\ Callable
        /\ IF why = "ok"
           THEN /\ api_keys[key_id].usage_count < MaxUsage
                /\ Saved([api_keys EXCEPT ![key_id] = Used(@, now)],
                         [call EXCEPT !.key_id = key_id,
                             !.result = Identity(key_id, api_keys[key_id]),
                             !.response =
                                 Respond(request, Identity(key_id, api_keys[key_id]))],
                         outcome)
           ELSE /\ outcome = "ok"
                /\ last' = call
                /\ UNCHANGED <<api_keys, file, running, faults, stored>>
        /\ fresh' = NoCall
        /\ UNCHANGED <<now, issued, revoked>>
        /\ UNCHANGED cvars

\* a direct call of validate_api_key
ValidateApiKey(api_key, required_permission, outcome) ==
    ValidateApiKeyFor(api_key, required_permission, outcome, NoRequest)

\* the wrapper of require_api_key(permission) around an endpoint (lines 190-215)
RequireApiKey(request, outcome) ==
    IF request.disabled
    THEN /\ Callable
         /\ outcome = "ok"
         /\ last' = [NoCall EXCEPT !.op = "request", !.request = request,
                                   !.response =
                                       Handled(request.permission, NoIdentity)]
         /\ fresh' = NoCall
         /\ UNCHANGED <<api_keys, file, now, running, issued, revoked, faults, stored>>
         /\ UNCHANGED cvars
    ELSE ValidateApiKeyFor(
             StripBearer(HeaderCredential(request.x_api_key, request.authorization)),
             request.permission, outcome, request)

\* revoke_api_key(key_id), its save ending as `outcome`
RevokeApiKey(key_id, outcome) ==
    /\ Callable
    /\ IF key_id \in DOMAIN api_keys
       THEN /\ Saved([api_keys EXCEPT ![key_id] = Revoked(@)],
                     [NoCall EXCEPT !.op = "revoke", !.key_id = key_id, !.ok = TRUE,
                         !.why = IF api_keys[key_id].active THEN "active"
                                 ELSE "inactive"],
                     outcome)
            /\ revoked' = IF outcome = "crash" THEN revoked
                          ELSE revoked \cup {SecretOf(api_keys[key_id])}
       ELSE /\ outcome = "ok"
            /\ last' = [NoCall EXCEPT !.op = "revoke", !.key_id = key_id,
                           !.ok = FALSE]
            /\ UNCHANGED <<api_keys, file, running, faults, stored, revoked>>
    /\ fresh' = NoCall
    /\ UNCHANGED <<now, issued>>
    /\ UNCHANGED cvars

\* mutant of ListEntry: the entry is the stored record with its key id
ListEntry_Whole(key_id, data) ==
    [key_id |-> key_id, name |-> data.name, permissions |-> data.permissions,
     created_at |-> data.created_at, expires_at |-> data.expires_at,
     last_used |-> data.last_used, usage_count |-> data.usage_count,
     active |-> data.active, key_hash |-> data.key_hash, salt |-> data.salt]

\* one entry of list_api_keys
ListEntry(key_id, data) ==
    [key_id |-> key_id, name |-> data.name, permissions |-> data.permissions,
     created_at |-> data.created_at, expires_at |-> data.expires_at,
     last_used |-> data.last_used, usage_count |-> data.usage_count,
     active |-> data.active]

\* list_api_keys()
ListApiKeys ==
    /\ Callable
    /\ last' = [NoCall EXCEPT !.op = "list",
                   !.listing = [k \in DOMAIN api_keys |-> ListEntry(k, api_keys[k])]]
    /\ fresh' = NoCall
    /\ UNCHANGED <<api_keys, file, now, running, issued, revoked, faults, stored>>
    /\ UNCHANGED cvars

\* the caller takes the result of the call that returned
Return ==
    /\ last.op # "none"
    /\ last' = NoCall
    /\ UNCHANGED <<api_keys, file, now, running, issued, fresh, revoked, faults, stored>>
    /\ UNCHANGED cvars

\* time passes between two calls
Tick ==
    /\ Callable
    /\ now < MaxTime
    /\ now' = now + 1
    /\ UNCHANGED <<api_keys, file, running, last, issued, fresh, revoked, faults, stored>>
    /\ UNCHANGED cvars

\* the calls a caller can make, with arguments from the given sets and the
\* storage behaving as one of `outcomes`
Generate(permission_args, expires_args, outcomes) ==
    \E name \in Names, permissions \in permission_args, expires_days \in expires_args,
       raw_key \in RawKeys, salt \in Salts, outcome \in outcomes :
        GenerateApiKey(name, permissions, expires_days, raw_key, salt, outcome)

Validate(required_permissions, outcomes) ==
    \E api_key \in RawKeys \cup {EmptyKey}, p \in required_permissions,
       outcome \in outcomes :
        ValidateApiKey(api_key, p, outcome)

Revoke(outcomes) ==
    \E key_id \in KeyIds \cup {"k0"}, outcome \in outcomes :
        RevokeApiKey(key_id, outcome)

Next ==
    \/ Generate(PermissionArgs, ExpiresArgs, {"ok"})
    \/ Validate(RequiredPermissions, {"ok"})
    \/ Revoke({"ok"})
    \/ ListApiKeys
    \/ Return
    \/ Tick

Spec == Init /\ [][Next]_vars

\* --------------------------------------- the process and its storage file

\* the process ends between two calls (the server stops, a CLI command is done)
Exit ==
    /\ Callable
    /\ running' = FALSE
    /\ api_keys' = <<>>
    /\ fresh' = NoCall
    /\ UNCHANGED <<file, now, last, issued, revoked, faults, stored>>
    /\ UNCHANGED cvars

\* APIKeyManager(storage_file): __init__ loads the file
Start ==
    /\ ~running
    /\ api_keys' = LoadApiKeys(file)
    /\ running' = TRUE
    /\ last' = [NoCall EXCEPT !.op = "load", !.why = file.kind]
    /\ UNCHANGED <<file, now, issued, fresh, revoked, faults, stored>>
    /\ UNCHANGED cvars

\* the arguments the calls take while the storage is under study
StorePermissionArgs == {NoList}
StoreExpiresArgs == {NoInt, Int1(-1)}
StoreRequiredPermissions == {"None", "process"}

\* the storage may fail while fewer than MaxFaults faults have happened
Outcomes == IF faults < MaxFaults THEN StorageOutcomes ELSE {"ok"}

NextStore ==
    \/ Generate(StorePermissionArgs, StoreExpiresArgs, Outcomes)
    \/ Validate(StoreRequiredPermissions, Outcomes)
    \/ Revoke(Outcomes)
    \/ ListApiKeys
    \/ Return
    \/ Tick
    \/ Exit
    \/ Start

SpecStore == Init /\ [][NextStore]_vars

\* ------------------------------------------------------ wrapped endpoints

\* the header values a client sends
HeaderValues ==
    {NoHeader, Header(0, EmptyKey), Header(0, 1), Header(1, 1), Header(2, 1)}
\* the api_key query parameters a client sends
QueryKeys == {EmptyKey, 1}
\* the permissions endpoints are wrapped with (app_new.py: 'process', 'admin')
EndpointPermissions == {"process", "admin"}

\* the keys an administrator issues while the endpoints are under study
HttpPermissionArgs == {List(<<"process">>)}
HttpExpiresArgs == {NoInt, Int1(-1)}

\* the values the environment gives DISABLE_API_AUTH
EnvValues == {"unset", "True", "1"}

\* a client sends a request to a wrapped endpoint
Http(outcomes) ==
    \E x_api_key \in HeaderValues, authorization \in HeaderValues,
       query_key \in QueryKeys, permission \in EndpointPermissions,
       env \in EnvValues, outcome \in outcomes :
        RequireApiKey(Request(x_api_key, authorization, query_key, permission, env),
                      outcome)

NextHttp ==
    \/ Generate(HttpPermissionArgs, HttpExpiresArgs, {"ok"})
    \/ Http({"ok"})
    \/ Revoke({"ok"})
    \/ Return
    \/ Tick

SpecHttp == Init /\ [][NextHttp]_vars

\* ------------------------------------- a second manager on the same file

\* `manage_keys revoke key_id` run while the server is up: the command builds
\* its own APIKeyManager from the storage file (manage_keys.py:41), revokes in
\* its copy, saves the copy and ends (lines 87-91). The server's collection in
\* memory is not touched.
ManageKeysRevoke(key_id) ==
    LET keys == LoadApiKeys(file)
    IN  /\ Callable
        /\ IF key_id \in DOMAIN keys
           THEN /\ file' = SaveApiKeys(file, [keys EXCEPT ![key_id] = Revoked(@)], "ok")
                /\ stored' = stored \cup DOMAIN keys
                /\ revoked' = revoked \cup {SecretOf(keys[key_id])}
                /\ last' = [NoCall EXCEPT !.op = "manage_keys", !.key_id = key_id,
                               !.ok = TRUE, !.save = "ok", !.writes = SaveAttempts("ok")]
           ELSE /\ last' = [NoCall EXCEPT !.op = "manage_keys", !.key_id = key_id,
                               !.ok = FALSE]
                /\ UNCHANGED <<file, stored, revoked>>
        /\ fresh' = NoCall
        /\ UNCHANGED <<api_keys, now, running, issued, faults>>
        /\ UNCHANGED cvars

\* the server takes calls while the command line tool is used on its file
NextShared ==
    \/ Generate(PermissionArgs, StoreExpiresArgs, {"ok"})
    \/ Validate(StoreRequiredPermissions, {"ok"})
    \/ Revoke({"ok"})
    \/ \E key_id \in KeyIds : ManageKeysRevoke(key_id)
    \/ Return

SpecShared == Init /\ [][NextShared]_vars

\* ----------------------------------------------------- request signatures

\* a str value with its characters, and None
Text(s) == [kind |-> "str", s |-> s]
NoText == [kind |-> "None", s |-> <<>>]

\* what an f-string makes of a value
Format(v) == IF v.kind = "None" THEN <<"N", "o", "n", "e">> ELSE v.s

\* the decimal digits
Digits == {"1", "2"}
DigitVal(c) == IF c = "1" THEN 1 ELSE 2

RECURSIVE Decimal(_)
Decimal(s) ==
    IF s = <<>> THEN 0 ELSE 10 * Decimal(SubSeq(s, 1, Len(s) - 1)) + DigitVal(s[Len(s)])

\* mutant of IntOf: a timestamp that does not parse counts as 0
IntOf_Lenient(v) ==
    IF v.kind = "str" /\ v.s # <<>> /\ \A i \in 1..Len(v.s) : v.s[i] \in Digits
    THEN [kind |-> "int", v |-> Decimal(v.s)]
    ELSE [kind |-> "int", v |-> 0]

\* int(timestamp): the number, or the error raised
IntOf(v) ==
    IF v.kind # "str" THEN [kind |-> "TypeError", v |-> 0]
    ELSE IF v.s # <<>> /\ \A i \in 1..Len(v.s) : v.s[i] \in Digits
         THEN [kind |-> "int", v |-> Decimal(v.s)]
         ELSE [kind |-> "ValueError", v |-> 0]

\* message = f"{timestamp}.{payload}"
Message(timestamp, payload) == Format(timestamp) \o <<".">> \o Format(payload)

\* hmac.new(key, message, sha256).hexdigest(): no two pairs give the same digest
HmacSha256(key, message) == [key |-> key, msg |-> message]
NoMac == HmacSha256(<<>>, <<>>)

\* a signature value: a str holding a digest, or a value of another type
SigText(mac) == [kind |-> "str", mac |-> mac]
SigNone == [kind |-> "None", mac |-> NoMac]
SigBytes(mac) == [kind |-> "bytes", mac |-> mac]

\* generate_request_signature(payload, secret_key, timestamp): the signature, or
\* AttributeError when secret_key has no encode()
GenerateRequestSignature(payload, secret_key, timestamp) ==
    IF secret_key.kind # "str" THEN [kind |-> "AttributeError", mac |-> NoMac]
    ELSE SigText(HmacSha256(secret_key.s, Message(timestamp, payload)))

\* mutant of WithinTolerance: the age of the request is not looked at
WithinTolerance_Any(current_time, request_time, tolerance) == TRUE

\* not (abs(current_time - request_time) > tolerance)
WithinTolerance(current_time, request_time, tolerance) ==
    LET d == current_time - request_time
    IN  ~((IF d < 0 THEN -d ELSE d) > tolerance)

\* int(time.time()): time.time() reads a float, here in tenths of a second,
\* and int() drops the fraction
IntOfTime(t) == t \div 10

\* mutant of VerifyRequestSignature: the expected signature is computed before
\* the age of the request is looked at
VerifyRequestSignature_SignFirst(payload, signature, secret_key, timestamp, tolerance, t) ==
    LET current_time == IntOfTime(t)
        request_time == IntOf(timestamp)
        expected == GenerateRequestSignature(payload, secret_key, timestamp)
    IN  IF request_time.kind # "int" THEN "False"
        ELSE IF expected.kind # "str" THEN expected.kind
        ELSE IF ~WithinTolerance(current_time, request_time.v, tolerance) THEN "False"
        ELSE IF signature.kind # "str" THEN "False"
        ELSE IF CompareDigest(signature.mac, expected.mac) THEN "True"
        ELSE "False"

\* verify_request_signature(payload, signature, secret_key, timestamp, tolerance)
\* with time.time() reading t: "True", "False", or the error that
\* leaves the function (ValueError and TypeError are caught, line 266)
VerifyRequestSignature(payload, signature, secret_key, timestamp, tolerance, t) ==
    LET current_time == IntOfTime(t)
        request_time == IntOf(timestamp)
        expected == GenerateRequestSignature(payload, secret_key, timestamp)
    IN  IF request_time.kind # "int" THEN "False"
        ELSE IF ~WithinTolerance(current_time, request_time.v, tolerance) THEN "False"
        ELSE IF expected.kind # "str" THEN expected.kind
        ELSE IF signature.kind # "str" THEN "False"
        ELSE IF CompareDigest(signature.mac, expected.mac) THEN "True"
        ELSE "False"

\* the inputs of the signature functions
SigPayloads == {Text(<<"x">>), Text(<<"2", ".", "x">>), Text(<<>>)}
SigSecrets == {Text(<<"x">>), Text(<<"2">>), NoText}
SigTimestamps ==
    {Text(<<"1">>), Text(<<"2">>), Text(<<"1", "2">>), Text(<<"1", ".", "2">>),
     Text(<<"x">>), Text(<<>>), NoText}
SigTolerances == {0, 1}
\* readings of time.time(), in tenths of a second
SigTimes == {10, 20, 29, 30}
\* the signatures a caller presents: those made by generate_request_signature,
\* the same digests as bytes, a digest made of nothing, and None
Signatures ==
    LET made == {GenerateRequestSignature(p, k, t) :
                    p \in SigPayloads, k \in SigSecrets \ {NoText}, t \in SigTimestamps}
    IN  made \cup {SigBytes(s.mac) : s \in made} \cup {SigText(NoMac), SigNone}

\* a call of generate_request_signature
SignCall(payload, secret_key, timestamp) ==
    /\ Callable
    /\ last' = [NoCall EXCEPT !.op = "sign",
                   !.sig = [NoSig EXCEPT !.payload = payload, !.secret_key = secret_key,
                               !.timestamp = timestamp,
                               !.signature =
                                   GenerateRequestSignature(payload, secret_key, timestamp)]]
    /\ UNCHANGED <<api_keys, file, now, running, issued, fresh, revoked, faults, stored>>
    /\ UNCHANGED cvars

\* a call of verify_request_signature
VerifyCall(payload, signature, secret_key, timestamp, tolerance, t) ==
    /\ Callable
    /\ last' = [NoCall EXCEPT !.op = "verify",
                   !.sig = [payload |-> payload, signature |-> signature,
                            secret_key |-> secret_key, timestamp |-> timestamp,
                            tolerance |-> tolerance, time |-> t,
                            current_time |-> IntOfTime(t),
                            verified |-> VerifyRequestSignature(payload, signature,
                                             secret_key, timestamp, tolerance, t)]]
    /\ UNCHANGED <<api_keys, file, now, running, issued, fresh, revoked, faults, stored>>
    /\ UNCHANGED cvars

NextSig ==
    \/ /\ Callable
       /\ \E payload \in SigPayloads, secret_key \in SigSecrets,
             timestamp \in SigTimestamps :
              SignCall(payload, secret_key, timestamp)
    \/ /\ Callable
       /\ \E payload \in SigPayloads, signature \in Signatures,
             secret_key \in SigSecrets, timestamp \in SigTimestamps,
             tolerance \in SigTolerances, t \in SigTimes :
              VerifyCall(payload, signature, secret_key, timestamp, tolerance, t)
    \/ Return

SpecSig == Init /\ [][NextSig]_vars

\* --------------------------------------------------- concurrent requests

\* the secrets drawn while requests overlap: their key ids differ
ConcRawKeys == {1, 2}

\* the name a thread gives to the key it generates
ConcName(t) == IF t = 1 THEN "worker-1" ELSE "worker-2"

\* the closing brace that ends the document
End == [k |-> "}", rec |-> None]

\* one entry of the document as json.dump writes it
Chunk(k, key_data) == [k |-> k, rec |-> DumpRecord(key_data)]

\* the characters of a chunk: an entry with "last_used": null is shorter than
\* one with a timestamp, and "active": true is shorter than "active": false
ChunkLen(c) ==
    IF c.k = "}" THEN 2
    ELSE (IF c.rec.last_used.kind = "None" THEN 304 ELSE 328)
         + (IF c.rec.active THEN 0 ELSE 1)

RECURSIVE TextLen(_)
TextLen(chunks) ==
    IF chunks = <<>> THEN 0 ELSE ChunkLen(Head(chunks)) + TextLen(Tail(chunks))

\* closing a handle opened with 'w' writes the buffered chunks from offset 0:
\* what the file held beyond their length stays in place
Overwrite(old, w) ==
    LET lw == TextLen(w)
        lo == TextLen(old.chunks) + old.junk
    IN  IF lw >= lo THEN [chunks |-> w, junk |-> 0]
        ELSE IF Len(old.chunks) >= Len(w)
                /\ TextLen(SubSeq(old.chunks, 1, Len(w))) = lw
             THEN [chunks |-> w \o SubSeq(old.chunks, Len(w) + 1, Len(old.chunks)),
                   junk |-> old.junk]
             ELSE [chunks |-> w, junk |-> lo - lw]

\* what json.load makes of the bytes
FileOf(bytes) ==
    LET n == Len(bytes.chunks)
    IN  IF /\ bytes.junk = 0
           /\ n >= 2
           /\ bytes.chunks[n] = End
           /\ \A i \in 1..(n - 1) : bytes.chunks[i] # End
        THEN JsonFile([k \in {bytes.chunks[i].k : i \in 1..(n - 1)} |->
                         (CHOOSE c \in {bytes.chunks[i] : i \in 1..(n - 1)} : c.k = k).rec])
        ELSE MalformedFile

\* the key the dictionary iterator yields next: keys come in insertion order,
\* which is the order in which their secrets were drawn
NextKey(keys, done) ==
    CHOOSE k \in DOMAIN keys \ done :
        \A j \in DOMAIN keys \ done : SecretOf(keys[k]) <= SecretOf(keys[j])

\* thread t moves to `pc` with the given fields set
At(t, pc) == [threads[t] EXCEPT !.pc = pc]

\* generate_api_key up to the insertion of the record (lines 56-81)
CGenerate(t, raw_key, salt) ==
    /\ running
    /\ threads[t].pc = "idle"
    /\ threads[t].calls < MaxCalls
    /\ raw_key \in ConcRawKeys \ issued
    /\ \A r \in ConcRawKeys \ issued : raw_key <= r
    /\ api_keys' = Put(api_keys, KeyIdOf(raw_key),
                       NewRecord(ConcName(t), raw_key, salt, NoList, NoInt, now))
    /\ issued' = issued \cup {raw_key}
    /\ threads' = [threads EXCEPT ![t] =
                      [At(t, "save") EXCEPT !.op = "generate", !.api_key = raw_key,
                                            !.key_id = KeyIdOf(raw_key)]]
    /\ UNCHANGED <<file, now, running, last, fresh, revoked, faults, stored,
                   text, succ, raised>>

\* validate_api_key up to the permission check (lines 106-142)
CValidateCheck(t, api_key, required_permission) ==
    /\ running
    /\ threads[t].pc = "idle"
    /\ threads[t].calls < MaxCalls
    /\ threads' = [threads EXCEPT ![t] =
          IF ValidateChecks(api_keys, api_key, required_permission, now) = "ok"
          THEN [At(t, "last_used") EXCEPT !.op = "validate", !.api_key = api_key,
                                          !.key_id = KeyIdOf(api_key),
                                          !.late = api_key \in revoked]
          ELSE [At(t, "done") EXCEPT !.op = "validate", !.api_key = api_key,
                                     !.ret = "None", !.late = api_key \in revoked]]
    /\ UNCHANGED <<api_keys, file, now, running, last, issued, fresh, revoked,
                   faults, stored, text, succ, raised>>

\* revoke_api_key up to its save (lines 158-159), or its `return False`
CRevoke(t, key_id) ==
    /\ running
    /\ threads[t].pc = "idle"
    /\ threads[t].calls < MaxCalls
    /\ IF key_id \in DOMAIN api_keys
       THEN /\ api_keys' = [api_keys EXCEPT ![key_id] = Revoked(@)]
            /\ threads' = [threads EXCEPT ![t] =
                   [At(t, "save") EXCEPT !.op = "revoke", !.key_id = key_id,
                                         !.api_key = SecretOf(api_keys[key_id])]]
       ELSE /\ api_keys' = api_keys
            /\ threads' = [threads EXCEPT ![t] =
                   [At(t, "done") EXCEPT !.op = "revoke", !.key_id = key_id,
                                         !.ret = "False"]]
    /\ UNCHANGED <<file, now, running, last, issued, fresh, revoked, faults, stored,
                   text, succ, raised>>

\* key_data['last_used'] = datetime.now() (line 145)
CLastUsed(t) ==
    /\ threads[t].pc = "last_used"
    /\ api_keys' = [api_keys EXCEPT ![threads[t].key_id].last_used = DateTime(now)]
    /\ threads' = [threads EXCEPT ![t] = At(t, "read_count")]
    /\ UNCHANGED <<file, now, running, last, issued, fresh, revoked, faults, stored,
                   text, succ, raised>>

\* line 146, the read: key_data.get('usage_count', 0)
CReadCount(t) ==
    /\ threads[t].pc = "read_count"
    /\ threads' = [threads EXCEPT ![t] =
          [At(t, "write_count") EXCEPT
              !.usage_count = api_keys[threads[t].key_id].usage_count]]
    /\ UNCHANGED <<api_keys, file, now, running, last, issued, fresh, revoked,
                   faults, stored, text, succ, raised>>

\* line 146, the write: key_data['usage_count'] = ... + 1
CWriteCount(t) ==
    /\ threads[t].pc = "write_count"
    /\ api_keys' = [api_keys EXCEPT
                       ![threads[t].key_id].usage_count = threads[t].usage_count + 1]
    /\ threads' = [threads EXCEPT ![t] = At(t, "save")]
    /\ UNCHANGED <<file, now, running, last, issued, fresh, revoked, faults, stored,
                   text, succ, raised>>

\* save_api_keys, line 37: open(self.storage_file, 'w') empties the file; then
\* json.dump starts to iterate over self.api_keys (line 38)
CSaveOpen(t) ==
    /\ threads[t].pc = "save"
    /\ text' = EmptyText
    /\ file' = FileOf(text')
    /\ threads' = [threads EXCEPT ![t] =
          [At(t, "dump") EXCEPT !.size = Cardinality(DOMAIN api_keys), !.buf = <<>>]]
    /\ UNCHANGED <<api_keys, now, running, last, issued, fresh, revoked, faults,
                   stored, succ, raised>>

\* json.dump takes the next entry of self.api_keys. The iterator raises
\* RuntimeError when the dictionary has changed size since the iteration began;
\* save_api_keys catches IOError only, so the error leaves the handler. After the
\* last entry the file is closed and the handler returns (lines 85-93,
\* 149-154, 160-162).
\* The chunks written reach the file when it is closed (they fit the buffer).
CSaveNext(t) ==
    LET th == threads[t]
        done == {th.buf[i].k : i \in 1..Len(th.buf)}
    IN  /\ th.pc = "dump"
        /\ IF Cardinality(DOMAIN api_keys) # th.size
           THEN /\ text' = Overwrite(text, th.buf)
                /\ file' = FileOf(text')
                /\ threads' = [threads EXCEPT ![t] =
                                  [At(t, "done") EXCEPT !.ret = "RuntimeError"]]
                /\ raised' = TRUE
                /\ UNCHANGED <<stored, succ, revoked>>
           ELSE IF Len(th.buf) < th.size
           THEN /\ threads' = [threads EXCEPT ![t] =
                      [th EXCEPT !.buf = Append(@,
                          LET k == NextKey(api_keys, done) IN Chunk(k, api_keys[k]))]]
                /\ UNCHANGED <<file, text, stored, succ, raised, revoked>>
           ELSE /\ text' = Overwrite(text, Append(th.buf, End))
                /\ file' = FileOf(text')
                /\ stored' = IF file'.kind = "json"
                             THEN stored \cup DOMAIN file'.data ELSE stored
                /\ IF th.op = "generate"
                   THEN /\ threads' = [threads EXCEPT ![t] =
                              [At(t, "done") EXCEPT !.ret = "generated",
                                                    !.mine = th.api_key]]
                        /\ UNCHANGED <<succ, revoked>>
                   ELSE IF th.op = "revoke"
                   THEN /\ threads' = [threads EXCEPT ![t] =
                              [At(t, "done") EXCEPT !.ret = "True"]]
                        /\ revoked' = revoked \cup {th.api_key}
                        /\ succ' = succ
                   ELSE /\ threads' = [threads EXCEPT ![t] =
                              [At(t, "done") EXCEPT !.ret = "identity",
                                  !.result = Identity(th.key_id, api_keys[th.key_id])]]
                        /\ succ' = [succ EXCEPT ![th.key_id] = @ + 1]
                        /\ revoked' = revoked
                /\ UNCHANGED raised
        /\ UNCHANGED <<api_keys, now, running, last, issued, fresh, faults>>

\* the request is answered and the thread takes the next one
CReturn(t) ==
    /\ threads[t].pc = "done"
    /\ threads' = [threads EXCEPT ![t] =
          [IdleThread EXCEPT !.calls = threads[t].calls + 1, !.mine = threads[t].mine]]
    /\ UNCHANGED <<api_keys, file, now, running, last, issued, fresh, revoked,
                   faults, stored, text, succ, raised>>

NextConc ==
    \/ \E t \in Threads, raw_key \in ConcRawKeys, salt \in Salts :
           CGenerate(t, raw_key, salt)
    \/ \E t \in Threads, api_key \in ConcRawKeys \cup {EmptyKey} :
           CValidateCheck(t, api_key, "None")
    \/ \E t \in Threads, key_id \in KeyIds : CRevoke(t, key_id)
    \/ \E t \in Threads : CLastUsed(t)
    \/ \E t \in Threads : CReadCount(t)
    \/ \E t \in Threads : CWriteCount(t)
    \/ \E t \in Threads : CSaveOpen(t)
    \/ \E t \in Threads : CSaveNext(t)
    \/ \E t \in Threads : CReturn(t)

SpecConc == Init /\ [][NextConc]_vars

\* ----------------------------------------------------------------- claims

\* the record of raw secret `raw` is the one stored under its key id
HoldsRecordOf(keys, raw) ==
    /\ KeyIdOf(raw) \in DOMAIN keys
    /\ keys[KeyIdOf(raw)].key_hash = Hex(Pbkdf2(raw, FromHex(keys[KeyIdOf(raw)].salt)))

\* the step is a validate_api_key(raw, ...) call returning
ValidateReturns(raw) ==
    last.op = "none" /\ last'.op = "validate" /\ last'.api_key = raw

\* C1: a validate_api_key(rawSecret, p) right after generate_api_key(name, perms)
\* succeeds if p is in perms and fails if p is not in perms, for every perms list,
\* the empty list included.
C1_ImmediateValidateFollowsPerms ==
    [][(/\ fresh.op = "generate"
        /\ fresh.permissions.kind = "list"
        /\ fresh.expires_days.kind = "None"
        /\ ValidateReturns(fresh.api_key)
        /\ last'.perm # "None")
       => (last'.result.kind = "identity"
             <=> InList(last'.perm, fresh.permissions.v))]_vars

C3_RevokedSecretFails ==
    (last.op = "validate" /\ last.api_key \in revoked) => last.result.kind = "None"

\* C3's case: the revoked record is still stored, and a validate with its
\* secret has just been refused
C3_Witness ==
    /\ last.op = "validate"
    /\ last.api_key \in revoked
    /\ HoldsRecordOf(api_keys, last.api_key)
    /\ last.why = "inactive"

\* C4: a validate_api_key with the correct secret of a record whose expires_at
\* lies before the current time fails and leaves the record's usage_count and
\* last_used as they were.
C4_ExpiredSecretFails ==
    [][\A raw \in RawKeys :
         (/\ HoldsRecordOf(api_keys, raw)
          /\ api_keys[KeyIdOf(raw)].expires_at.kind # "None"
          /\ api_keys[KeyIdOf(raw)].expires_at.t < now
          /\ ValidateReturns(raw))
         => /\ last'.result.kind = "None"
            /\ api_keys'[KeyIdOf(raw)].usage_count = api_keys[KeyIdOf(raw)].usage_count
            /\ api_keys'[KeyIdOf(raw)].last_used = api_keys[KeyIdOf(raw)].last_used]_vars

\* C4's case: a key generated with a negative expires_days (it expires before it
\* was created) is active, holds the permission asked for, and its validate with
\* the correct secret has just been refused as expired
C4_Witness ==
    /\ last.op = "validate"
    /\ last.why = "expired"
    /\ HoldsRecordOf(api_keys, last.api_key)
    /\ LET key_data == api_keys[KeyIdOf(last.api_key)]
       IN  /\ key_data.active
           /\ InList(last.perm, key_data.permissions)
           /\ key_data.expires_at.t < key_data.created_at.t
           /\ key_data.expires_at.t < now

\* C5: once a record's active field is false in memory and in the store, no
\* call makes it true again, in memory or in the store.
C5_ActiveIsIrreversible ==
    [][\A k \in DOMAIN api_keys :
         (/\ ~api_keys[k].active
          /\ file.kind = "json" /\ k \in DOMAIN file.data /\ ~file.data[k].active)
         => /\ k \in DOMAIN api_keys' => ~api_keys'[k].active
            /\ (file'.kind = "json" /\ k \in DOMAIN file'.data)
                   => ~file'.data[k].active]_vars

\* C6: when validate_api_key calls on the same credential overlap and no call
\* has failed, then once every call has finished the usage_count of each record
\* equals the number of validate calls that returned its identity.
C6_NoLostIncrement ==
    ((\A t \in Threads : threads[t].pc = "idle") /\ ~raised)
    => \A k \in DOMAIN api_keys : api_keys[k].usage_count = succ[k]

\* C7: when callers overlap, each running generate_api_key and then
\* validate_api_key of the secret it received, every generate returns and every
\* such validate returns the key_id and the name of the caller's own record.
C7_ConcurrentCallersSucceed ==
    \A t \in Threads :
        threads[t].pc = "done" =>
            /\ threads[t].op = "generate" => threads[t].ret = "generated"
            /\ (threads[t].op = "validate" /\ threads[t].mine # EmptyKey
                  /\ threads[t].api_key = threads[t].mine)
               => /\ threads[t].ret = "identity"
                  /\ threads[t].result.key_id = KeyIdOf(threads[t].mine)
                  /\ threads[t].result.name = ConcName(t)

\* C8: at every point of a save, a crash after open() included, the storage
\* file holds a complete collection, never an empty or cut-off one.
C8_SaveIsAtomic == file.kind \in {"absent", "json"}

\* C9: load_api_keys returns an empty mapping when there is no file and fails
\* when the file is malformed, so no manager serves an empty collection in
\* place of an unreadable store.
C9_LoadFailsOnMalformedStore ==
    /\ (last.op = "load" /\ last.why = "absent") => (running /\ api_keys = <<>>)
    /\ (last.op = "load" /\ last.why = "malformed") => ~running

\* C10: a key id that was in the collection in memory and in the store stays in
\* the collection of every manager that is serving and in every complete store.
C10_KeyIdsOnlyGrow ==
    /\ running => stored \subseteq DOMAIN api_keys
    /\ file.kind = "json" => stored \subseteq DOMAIN file.data

\* the position of a last_used value in time: never used comes first
LastUsedRank(key_data) ==
    IF key_data.last_used.kind = "None" THEN -1 ELSE key_data.last_used.t

\* C11: the usage_count of a record never decreases and its last_used never
\* moves backwards; both change only in a validate_api_key call that returns
\* the identity of that record, and a failing validate does not write the store.
C11_UsageOnlyAdvances ==
    [][/\ \A k \in DOMAIN api_keys :
             k \in DOMAIN api_keys' =>
                 /\ api_keys'[k].usage_count >= api_keys[k].usage_count
                 /\ LastUsedRank(api_keys'[k]) >= LastUsedRank(api_keys[k])
                 /\ \/ /\ api_keys'[k].usage_count = api_keys[k].usage_count
                       /\ api_keys'[k].last_used = api_keys[k].last_used
                    \/ /\ last'.op = "validate"
                       /\ last'.result.kind = "identity"
                       /\ last'.key_id = k
       /\ (last.op = "none" /\ last'.op = "validate" /\ last'.result.kind = "None")
          => file' = file]_vars

\* C12: no value returned by validate_api_key or list_api_keys has a key_hash
\* or salt field, and list_api_keys returns one entry for every record of the
\* collection, revoked ones included.
C12_NoHashOrSaltReturned ==
    /\ last.op = "validate" => DOMAIN last.result \cap {"key_hash", "salt"} = {}
    /\ last.op = "list" =>
           /\ DOMAIN last.listing = DOMAIN api_keys
           /\ \A k \in DOMAIN last.listing :
                  /\ DOMAIN last.listing[k] \cap {"key_hash", "salt"} = {}
                  /\ last.listing[k].key_id = k
                  /\ last.listing[k].name = api_keys[k].name
                  /\ last.listing[k].active = api_keys[k].active

\* C12's case: a listing that holds a revoked record next to others
C12_Witness ==
    /\ last.op = "list"
    /\ \E k \in DOMAIN last.listing : ~last.listing[k].active
    /\ \E k \in DOMAIN last.listing : last.listing[k].active

\* the fields of a stored record (lines 71-81)
RecordFields ==
    {"name", "key_hash", "salt", "permissions", "created_at", "expires_at",
     "last_used", "usage_count", "active"}

\* C13: the raw secret is returned by the generate_api_key call that created it
\* and by nothing else: no record in memory or in the store has a field for it,
\* and neither has a value returned by validate_api_key, list_api_keys or
\* load_api_keys.
C13_SecretOnlyFromGenerate ==
    /\ \A k \in DOMAIN api_keys : DOMAIN api_keys[k] = RecordFields
    /\ file.kind = "json" => \A k \in DOMAIN file.data : DOMAIN file.data[k] = RecordFields
    /\ last.op = "validate" => "api_key" \notin DOMAIN last.result
    /\ last.op = "list" => \A k \in DOMAIN last.listing : "api_key" \notin DOMAIN last.listing[k]
    /\ last.op = "generate" =>
           /\ HoldsRecordOf(api_keys, last.api_key)
           /\ last.key_id = KeyIdOf(last.api_key)

\* C13's case: a manager has loaded the records that an earlier process stored
C13_Witness ==
    /\ last.op = "load"
    /\ file.kind = "json"
    /\ DOMAIN api_keys # {}
    /\ DOMAIN api_keys = DOMAIN file.data

\* C14: whatever makes an authorization fail (missing, unknown, revoked or
\* expired key, hash mismatch, missing permission), validate_api_key returns the
\* same None and the wrapped endpoint answers with the same 401 status, error
\* and message.
C14_FailuresLookAlike ==
    (last.op = "validate" /\ last.why # "ok") =>
        /\ last.result = NoIdentity
        /\ last.request.kind = "request" =>
               /\ last.response.status = 401
               /\ last.response.error = "Invalid or missing API key"
               /\ last.response.message =
                      "Please provide a valid API key in the X-API-Key header"
               /\ last.response.api_key_data = NoIdentity

\* C14's case: a request is refused because the secret presented shares the key
\* id of a stored record without being its secret
C14_Witness ==
    /\ last.op = "validate"
    /\ last.request.kind = "request"
    /\ last.why = "hash"
    /\ last.response.status = 401

\* C19: the handler of a wrapped endpoint runs only if authentication is
\* disabled or validate_api_key succeeded for the credential presented with the
\* endpoint's permission; a refused request gets a 401 without the handler, and
\* on success the identity returned is attached to the request.
C19_HandlerOnlyWhenAuthorized ==
    last.request.kind = "request" =>
        /\ last.response.handler <=>
               \/ last.request.disabled
               \/ (last.op = "validate" /\ last.result.kind = "identity")
        /\ ~last.response.handler => last.response.status = 401
        /\ ~last.request.disabled =>
               /\ last.op = "validate"
               /\ last.perm = last.request.permission
               /\ last.response.api_key_data = last.result
               /\ last.result.kind = "identity" =>
                      /\ HoldsRecordOf(api_keys, last.api_key)
                      /\ last.result.key_id = KeyIdOf(last.api_key)
                      /\ last.result.name = api_keys[KeyIdOf(last.api_key)].name
                      /\ last.result.permissions =
                             api_keys[KeyIdOf(last.api_key)].permissions
                      /\ InList(last.perm, last.result.permissions)

\* C19's case: the handler has run for a request that carried a valid secret
\* behind the 'Bearer ' prefix
C19_Witness ==
    /\ last.request.kind = "request"
    /\ ~last.request.disabled
    /\ last.request.x_api_key = NoHeader
    /\ last.request.authorization.bearer = 1
    /\ last.response.handler
    /\ last.response.api_key_data.kind = "identity"

\* C20: the wrapper validates the secret of the header with one 'Bearer '
\* prefix stripped, and the api_key query parameter when no header carries a
\* credential.
C20_CredentialExtraction ==
    (last.request.kind = "request" /\ ~last.request.disabled) =>
        LET h == HeaderCredential(last.request.x_api_key, last.request.authorization)
        IN  /\ (Truthy(h) /\ h.bearer <= 1) => last.api_key = h.key
            /\ (~Truthy(h) /\ last.request.query_key # EmptyKey)
               => last.api_key = last.request.query_key

\* C15: revoke_api_key(id) returns true exactly when a record with that id
\* exists; it sets active of that record to false and changes nothing else, so
\* it changes nothing at all when the record is already revoked or the id is
\* unknown.
C15_RevokeIsIdempotent ==
    [][(last.op = "none" /\ last'.op = "revoke") =>
          LET id == last'.key_id
          IN  /\ last'.ok <=> id \in DOMAIN api_keys
              /\ id \in DOMAIN api_keys =>
                     api_keys' = [api_keys EXCEPT ![id].active = FALSE]
              /\ id \notin DOMAIN api_keys => (api_keys' = api_keys /\ file' = file)
              /\ (id \in DOMAIN api_keys /\ ~api_keys[id].active)
                 => (api_keys' = api_keys /\ file' = file)]_vars

\* C15's case: a revoke of an already revoked record has returned true
C15_Witness ==
    /\ last.op = "revoke"
    /\ last.ok
    /\ last.why = "inactive"
    /\ ~api_keys[last.key_id].active

VerifyParsed ==
    /\ last.op = "verify"
    /\ last.sig.secret_key.kind = "str"
    /\ IntOf(last.sig.timestamp).kind = "int"

\* the request time of the call lies within tolerance of the current time
InTolerance ==
    LET d == last.sig.current_time - IntOf(last.sig.timestamp).v
    IN  -last.sig.tolerance <= d /\ d <= last.sig.tolerance

\* C17: verify_request_signature returns true for the signature that
\* generate_request_signature makes of the same payload, secret and timestamp
\* while the timestamp is within tolerance of the current time; it returns false
\* for the signature of another payload, for a timestamp outside tolerance, and
\* for a signature made with another secret.
C17_VerifyAcceptsOnlyOwnSignature ==
    VerifyParsed =>
        LET v == last.sig
        IN  /\ (/\ v.signature = GenerateRequestSignature(v.payload, v.secret_key,
                                                           v.timestamp)
                /\ InTolerance)
               => v.verified = "True"
            /\ (\E p \in SigPayloads \ {v.payload} :
                    v.signature = GenerateRequestSignature(p, v.secret_key, v.timestamp))
               => v.verified = "False"
            /\ ~InTolerance => v.verified = "False"
            /\ (\E k \in SigSecrets \ {v.secret_key, NoText} :
                    v.signature = GenerateRequestSignature(v.payload, k, v.timestamp))
               => v.verified = "False"

\* C17's case: a signature is accepted at the edge of the tolerance
C17_Witness ==
    /\ VerifyParsed
    /\ last.sig.verified = "True"
    /\ last.sig.tolerance = 1
    /\ last.sig.current_time = IntOf(last.sig.timestamp).v + 1

\* the timestamps that are not the text of an integer
NotIntegers == {NoText, Text(<<>>), Text(<<"x">>), Text(<<"1", ".", "2">>)}

\* C18: verify_request_signature returns false, and raises nothing, when the
\* timestamp is not the text of an integer (other text, the empty string, None)
\* and when the signature is not a str.
C18_MalformedInputIsRefused ==
    (/\ last.op = "verify"
     /\ last.sig.secret_key.kind = "str"
     /\ \/ last.sig.timestamp \in NotIntegers
        \/ last.sig.signature.kind # "str")
    => last.sig.verified = "False"

\* C18's case: the timestamp is None and the signature is the one made for it
C18_Witness ==
    /\ last.op = "verify"
    /\ last.sig.timestamp = NoText
    /\ last.sig.secret_key.kind = "str"
    /\ last.sig.signature = GenerateRequestSignature(last.sig.payload,
                                                     last.sig.secret_key, NoText)
    /\ last.sig.verified = "False"

\* C21: key ids are unique: generate_api_key never produces an id that is
\* already a key of the collection, so a generate call never overwrites or
\* resets a record that exists.
C21_KeyIdsAreUnique ==
    [][(last.op = "none" /\ last'.op = "generate")
       => /\ last'.key_id \notin DOMAIN api_keys
          /\ \A k \in DOMAIN api_keys :
                 k \in DOMAIN api_keys' /\ api_keys'[k] = api_keys[k]]_vars

\* C22: the key id generate_api_key assigns is not a function of the raw
\* secret: it is never the value that the secret alone determines, the cut
\* SHA-256 digest by which validate_api_key finds the record of a secret
\* presented to it.
C22_KeyIdNotDerivedFromSecret ==
    last.op = "generate" => last.key_id # KeyIdOf(last.api_key)

\* C29: the permission list generate_api_key stores and returns is the list
\* supplied whenever one is supplied, the empty list included; the default
\* ['process', 'health'] is used only when the argument is None.
C29_PermissionsAsSupplied ==
    last.op = "generate"
    => LET expected == IF last.permissions.kind = "list" THEN last.permissions.v
                       ELSE DefaultPermissions
       IN  /\ last.out_permissions = expected
           /\ api_keys[last.key_id].permissions = expected

\* C30: a key expires exactly when expires_days is supplied: for every integer,
\* zero and the negative ones included, expires_at is the creation time plus
\* expires_days in the record and in the value returned, and only None gives a
\* key that never expires.
C30_ExpiryWheneverSupplied ==
    last.op = "generate"
    => LET key_data == api_keys[last.key_id]
           expected == IF last.expires_days.kind = "int"
                       THEN PlusDays(key_data.created_at, last.expires_days.v)
                       ELSE None
       IN  /\ key_data.expires_at = expected
           /\ last.out_expires_at = expected

\* C26: verify_request_signature looks at the age of the request first, in whole
\* seconds: with a timestamp that parses it accepts the correct signature exactly
\* when the whole second of the clock is at most tolerance away from the
\* timestamp, before or after it, and outside that window it returns false
\* without computing the expected signature (a secret that cannot be signed
\* with raises nothing there).
C26_WindowFirstOnWholeSeconds ==
    (last.op = "verify" /\ IntOf(last.sig.timestamp).kind = "int")
    => LET v == last.sig
           d == (v.time \div 10) - IntOf(v.timestamp).v
           inside == -v.tolerance <= d /\ d <= v.tolerance
       IN  /\ ~inside => v.verified = "False"
           /\ (/\ v.secret_key.kind = "str"
               /\ v.signature = GenerateRequestSignature(v.payload, v.secret_key,
                                                         v.timestamp))
              => (v.verified = "True" <=> inside)

\* C26's case: one whole second past the tolerance, read from a clock that is a
\* fraction further, the call returns false though its secret is None
C26_Witness ==
    /\ last.op = "verify"
    /\ last.sig.timestamp = Text(<<"1">>)
    /\ last.sig.tolerance = 0
    /\ last.sig.time = 29
    /\ last.sig.secret_key = NoText
    /\ last.sig.verified = "False"

C23_RevokeAndValidateSerialized ==
    /\ ((\A t \in Threads : threads[t].pc = "idle") /\ ~raised)
       => \A k \in DOMAIN api_keys :
              SecretOf(api_keys[k]) \in revoked
              => /\ ~api_keys[k].active
                 /\ api_keys[k].usage_count = succ[k]
                 /\ file.kind = "json"
                 /\ k \in DOMAIN file.data
                 /\ ~file.data[k].active
                 /\ file.data[k].usage_count = succ[k]
    /\ \A t \in Threads :
           (threads[t].op = "validate" /\ threads[t].late)
           => threads[t].pc = "done" /\ threads[t].ret = "None"

\* C24: the usage update of a successful validate_api_key is a single commit
\* point: wherever the call stops, last_used, usage_count and the store have all
\* changed or none has. No state is reachable in which a record's last_used is
\* set without its usage_count being advanced, or in which the usage fields in
\* memory differ from those of the record in the store.
C24_UsageUpdateIsOneCommit ==
    \A k \in DOMAIN api_keys :
        /\ api_keys[k].last_used.kind = "None" <=> api_keys[k].usage_count = 0
        /\ (file.kind = "json" /\ k \in DOMAIN file.data)
           => /\ file.data[k].usage_count = api_keys[k].usage_count
              /\ file.data[k].last_used = Str(api_keys[k].last_used)

\* C27: authentication is enforced unless it is explicitly disabled:
\* DISABLE_API_AUTH is false when the environment does not set it, and when it
\* is true every wrapped handler runs for every request whatever credential it
\* carries, answers as it does for an authenticated request (it does not fail
\* for lack of an attached identity), and no record's usage_count or last_used
\* changes, in memory or in the store.
C27_DisabledAuthRunsHandler ==
    [][(last.op = "none" /\ last'.request.kind = "request")
       => /\ last'.request.env = "unset" => ~last'.request.disabled
          /\ last'.request.disabled
             => /\ last'.response.handler
                /\ last'.response.status = 200
                /\ api_keys' = api_keys
                /\ file' = file]_vars

\* C28: a revocation written to the storage file by one APIKeyManager (the
\* manage_keys command) is never undone by another manager on the same file
\* (the running server): while the revoked record is the one in the file it
\* stays active = false there whatever the other manager saves later, and the
\* other manager's validate_api_key of that key fails.
C28_RevocationSurvivesOtherManager ==
    \A raw \in revoked :
        /\ (file.kind = "json" /\ HoldsRecordOf(file.data, raw))
           => ~file.data[KeyIdOf(raw)].active
        /\ (last.op = "validate" /\ last.api_key = raw) => last.result.kind = "None"

====
